---- MODULE Spec2Model ----
(***************************************************************************)
(* ftxvme-elf2eif: conversion of an ELF executable into an enclave image.  *)
(* One process invocation: clap argument validation in main, then run,     *)
(* which builds a temporary docker directory (setup_docker_dir), calls the *)
(* image builder (build_from_docker) and removes the directory again.      *)
(* Each statement of main, run and setup_docker_dir that touches the       *)
(* filesystem, the output streams or the process status is one action.     *)
(* An Option<T> is a sequence: <<>> is None, <<v>> is Some(v).             *)
(***************************************************************************)
EXTENDS Integers, Sequences, FiniteSets, TLC

\* ---------------------------------------------------------------- bounds
\* contents of the input file are 0..MaxData
MaxData == 1
\* errors the image builder can return are 1..MaxErr
MaxErr == 2
\* measurements the image builder can return are 1..MaxMeasure
MaxMeasure == 2

\* --------------------------------------------------------------- constants
DEFAULT_RESOURCE_PATH == "/usr/share/nitro_enclaves/blobs/"

\* the tag handed to build_from_docker
BUILD_TAG == "elf2eif"

\* the copy keeps the name of the test input instead of the fixed name
INPUT_FILE_NAME == "a.elf"

\* the name the executable is copied to, and the name of the manifest
ENCLAVE_NAME == "enclave"
DOCKERFILE_NAME == "Dockerfile"

\* const DOCKERFILE, line by line: the indentation and the words of the line
DOCKERFILE ==
    << [indent |-> 0, words |-> <<>>],
       [indent |-> 8, words |-> <<"FROM", "scratch">>],
       [indent |-> 8, words |-> <<"COPY", "enclave", ".">>],
       [indent |-> 8, words |-> <<"CMD", "[\"./enclave\"]">>],
       [indent |-> 4, words |-> <<>>] >>

\* ------------------------------------------------------------------ domains
Data == 0..MaxData
\* the paths the user can name on the command line
UserPaths == {"/u/a", "/u/b"}
BuildErrors == 1..MaxErr
Measurements == 1..MaxMeasure

\* what can be found at a path that should name a file, and at one that
\* should name a directory
FileKinds == {"missing", "unreadable", "dir", "file"}
CredKinds == {"missing", "unreadable", "file"}
DirKinds == {"missing", "file", "dir"}

\* the path of the temporary directory TempDir::new("elf2eif_docker_dir") picks
WsPath == "/tmp/elf2eif_docker_dir.0"

None == <<>>
Some(v) == <<v>>
Opt(S) == {None} \cup {Some(v) : v \in S}

VARIABLES
    argv,            \* the command line: the values of the clap arguments
    fs,              \* the files the arguments name, the default resource
                     \* directory and the temporary-directory root
    pc,              \* the statement the process is at
    req,             \* main's locals (lines 107-113), None before they are set
    ws,              \* the docker directory on disk
    docker_dir,      \* the TempDir value in scope, None when there is none
    docker_dir_path, \* run's local docker_dir_path: Option<String>
    setupResult,     \* what setup_docker_dir returned, None before it returns
    buildResult,     \* what build_from_docker returned, None before it returns
    closeResult,     \* what docker_dir.close() returned, None before it is called
    builderCalls,    \* the calls of build_from_docker, in order
    wsCreated,       \* number of directories TempDir::new created
    teardowns,       \* number of remove_dir_all calls on the docker directory
    stdout,          \* the lines printed with println!
    stderr,          \* clap's error and the records handed to the logger
    exitCode         \* the exit status, None while the process runs

vars == << argv, fs, pc, req, ws, docker_dir, docker_dir_path, setupResult,
           buildResult, closeResult, builderCalls, wsCreated, teardowns,
           stdout, stderr, exitCode >>

\* ------------------------------------------------------------ the filesystem
NoEntries == [n \in {} |-> <<>>]

NoWorkspace == [exists |-> FALSE, entries |-> NoEntries]

\* the directory's entries with file `name` holding `content`
WithEntry(entries, name, content) ==
    [n \in (DOMAIN entries) \cup {name} |-> IF n = name THEN content ELSE entries[n]]

\* the directory's entries restricted to the names in `keep`
Restrict(entries, keep) == [n \in keep |-> entries[n]]

Prefix(s, k) == [i \in 1..k |-> s[i]]

\* std::fs::remove_dir_all on the docker directory `w`: on success the directory
\* and everything in it are gone; on failure the directory is still there with
\* the entries in `keep`, the ones not yet removed
RemoveDirAll(w, ok, keep) ==
    IF ok THEN NoWorkspace
    ELSE [exists |-> TRUE, entries |-> Restrict(w.entries, keep)]

\* a line of output: its kind, its text arguments and its numeric arguments
Line(kind, strs, nums) == [kind |-> kind, strs |-> strs, nums |-> nums]

\* --------------------------------------------------------- the clap validators
\* eif_tools::readable_elf_file, is_directory and readable_file, applied to what
\* is found at the path
readable_elf_file(kind) == kind = "file"

is_directory(kind) == kind = "dir"

readable_file(kind) == kind = "file"

\* InvalidArgs with the validator of the input file left out
InvalidArgs_NoElfValidator(a, f) ==
    (IF a.resource # None /\ ~is_directory(f.resKind) THEN {"resource-path"} ELSE {})
    \cup (IF a.cert # None /\ ~readable_file(f.certKind) THEN {"signing-certificate"} ELSE {})
    \cup (IF a.key # None /\ ~readable_file(f.keyKind) THEN {"private-key"} ELSE {})

\* InvalidArgs with the validator of the resource path left out
InvalidArgs_NoResourceValidator(a, f) ==
    (IF ~readable_elf_file(f.elfKind) THEN {"elffile"} ELSE {})
    \cup (IF a.cert # None /\ ~readable_file(f.certKind) THEN {"signing-certificate"} ELSE {})
    \cup (IF a.key # None /\ ~readable_file(f.keyKind) THEN {"private-key"} ELSE {})

\* the arguments whose validator_os rejects the value given for them; an
\* argument that is not given is not validated
InvalidArgs(a, f) ==
    (IF ~readable_elf_file(f.elfKind) THEN {"elffile"} ELSE {})
    \cup (IF a.resource # None /\ ~is_directory(f.resKind) THEN {"resource-path"} ELSE {})
    \cup (IF a.cert # None /\ ~readable_file(f.certKind) THEN {"signing-certificate"} ELSE {})
    \cup (IF a.key # None /\ ~readable_file(f.keyKind) THEN {"private-key"} ELSE {})

\* --------------------------------------------------------------------- Init
\* what can be at the path of an optional argument: nothing is looked at when
\* the argument is not given
KindsFor(opt, kinds) == IF opt = None THEN {"missing"} ELSE kinds

ArgvSet ==
    [elffile : UserPaths, eiffile : UserPaths, resource : Opt(UserPaths),
     cert : Opt(UserPaths), key : Opt(UserPaths)]

\* fs.resKind is what is at the resource path the invocation uses: the one given
\* with -r, or DEFAULT_RESOURCE_PATH
Init ==
    /\ argv \in ArgvSet
    /\ fs \in [elfKind : FileKinds, elfData : Data, resKind : DirKinds,
                certKind : KindsFor(argv.cert, CredKinds),
                keyKind : KindsFor(argv.key, CredKinds),
                tmpUtf8 : BOOLEAN]
    /\ pc = "main_parse"
    /\ req = None
    /\ ws = NoWorkspace
    /\ docker_dir = None
    /\ docker_dir_path = None
    /\ setupResult = None
    /\ buildResult = None
    /\ closeResult = None
    /\ builderCalls = <<>>
    /\ wsCreated = 0
    /\ teardowns = 0
    /\ stdout = <<>>
    /\ stderr = <<>>
    /\ exitCode = None

\* --------------------------------------------------------------------- main
\* get_matches: a validator rejects an argument; clap prints the error and exits
\* with status 1
ClapReject ==
    /\ pc = "main_parse"
    /\ \E a \in InvalidArgs(argv, fs) :
         stderr' = Append(stderr, Line("clap_err", <<a>>, <<>>))
    /\ pc' = "exited"
    /\ exitCode' = Some(1)
    /\ UNCHANGED << argv, fs, req, ws, docker_dir, docker_dir_path, setupResult,
                    buildResult, closeResult, builderCalls, wsCreated, teardowns,
                    stdout >>

\* main's locals once every validator has accepted
MainRequest(a) ==
    [input_path |-> a.elffile,
     output_path |-> a.eiffile,
     signing_certificate |-> a.cert,
     private_key |-> a.key,
     resource_path |-> IF a.resource = None THEN DEFAULT_RESOURCE_PATH
                       ELSE a.resource[1]]

MainLocals ==
    /\ pc = "main_parse"
    /\ InvalidArgs(argv, fs) = {}
    /\ req' = Some(MainRequest(argv))
    /\ pc' = "run_entry"
    /\ UNCHANGED << argv, fs, ws, docker_dir, docker_dir_path, setupResult,
                    buildResult, closeResult, builderCalls, wsCreated, teardowns,
                    stdout, stderr, exitCode >>

\* run has returned: main returns and the process ends with status 0
MainReturn ==
    /\ pc = "run_return"
    /\ pc' = "exited"
    /\ exitCode' = Some(0)
    /\ UNCHANGED << argv, fs, req, ws, docker_dir, docker_dir_path, setupResult,
                    buildResult, closeResult, builderCalls, wsCreated, teardowns,
                    stdout, stderr >>

\* --------------------------------------------------------- setup_docker_dir
Ok == [tag |-> "Ok", err |-> ""]
Err(e) == [tag |-> "Err", err |-> e]

\* the TempDir that TempDir::new returns: it holds the path of its directory
NewTempDir == [path |-> Some(WsPath)]

\* TempDir::close sets the path to None once it has called remove_dir_all
Closed(d) == [d EXCEPT !.path = None]

\* TempDir's Drop removes the directory only while the path is still there
DropRemoves(d) == d.path # None

\* info!, then TempDir::new("elf2eif_docker_dir")?
SetupCreate ==
    /\ pc = "sd_create"
    /\ stderr' = Append(stderr, Line("info", <<"Setting up docker directory">>, <<>>))
    /\ \E ok \in BOOLEAN :
         IF ok
         THEN /\ ws' = [exists |-> TRUE, entries |-> NoEntries]
              /\ docker_dir' = Some(NewTempDir)
              /\ wsCreated' = wsCreated + 1
              /\ pc' = "sd_copy"
              /\ UNCHANGED setupResult
         ELSE /\ setupResult' = Some(Err("create"))
              /\ pc' = "run_setup_err"
              /\ UNCHANGED << ws, docker_dir, wsCreated >>
    /\ UNCHANGED << argv, fs, req, docker_dir_path, buildResult, closeResult,
                    builderCalls, teardowns, stdout, exitCode >>

\* SetupCopy with the result of the copy ignored (no ? operator)
SetupCopy_IgnoresError ==
    /\ pc = "sd_copy"
    /\ \E ok \in BOOLEAN, partial \in BOOLEAN :
         IF ok
         THEN /\ fs.elfKind = "file"
              /\ ws' = [ws EXCEPT !.entries = WithEntry(@, ENCLAVE_NAME, <<fs.elfData>>)]
         ELSE /\ ws' = IF partial /\ fs.elfKind = "file"
                       THEN [ws EXCEPT !.entries = WithEntry(@, ENCLAVE_NAME, <<>>)]
                       ELSE ws
    /\ pc' = "sd_create_file"
    /\ UNCHANGED << argv, fs, req, docker_dir, docker_dir_path, setupResult,
                    buildResult, closeResult, builderCalls, wsCreated, teardowns,
                    stdout, stderr, exitCode >>

\* SetupCopy moving the input file into the directory instead of copying it
SetupCopy_Moves ==
    /\ pc = "sd_copy"
    /\ \E ok \in BOOLEAN :
         IF ok
         THEN /\ fs.elfKind = "file"
              /\ ws' = [ws EXCEPT !.entries = WithEntry(@, ENCLAVE_NAME, <<fs.elfData>>)]
              /\ fs' = [fs EXCEPT !.elfKind = "missing"]
              /\ pc' = "sd_create_file"
              /\ UNCHANGED setupResult
         ELSE /\ setupResult' = Some(Err("copy"))
              /\ pc' = "sd_unwind"
              /\ UNCHANGED << ws, fs >>
    /\ UNCHANGED << argv, req, docker_dir, docker_dir_path, buildResult,
                    closeResult, builderCalls, wsCreated, teardowns, stdout,
                    stderr, exitCode >>

\* std::fs::copy(elf_path, docker_dir.path().join("enclave"))?: it reads the
\* input file and writes the copy; a failed copy may leave a truncated file
SetupCopy ==
    /\ pc = "sd_copy"
    /\ \E ok \in BOOLEAN, partial \in BOOLEAN :
         IF ok
         THEN /\ fs.elfKind = "file"
              /\ ws' = [ws EXCEPT !.entries = WithEntry(@, ENCLAVE_NAME, <<fs.elfData>>)]
              /\ pc' = "sd_create_file"
              /\ UNCHANGED setupResult
         ELSE /\ ws' = IF partial /\ fs.elfKind = "file"
                       THEN [ws EXCEPT !.entries = WithEntry(@, ENCLAVE_NAME, <<>>)]
                       ELSE ws
              /\ setupResult' = Some(Err("copy"))
              /\ pc' = "sd_unwind"
    /\ UNCHANGED << argv, fs, req, docker_dir, docker_dir_path, buildResult,
                    closeResult, builderCalls, wsCreated, teardowns, stdout,
                    stderr, exitCode >>

\* File::create(docker_dir.path().join("Dockerfile"))?
SetupCreateFile ==
    /\ pc = "sd_create_file"
    /\ \E ok \in BOOLEAN :
         IF ok
         THEN /\ ws' = [ws EXCEPT !.entries = WithEntry(@, DOCKERFILE_NAME, <<>>)]
              /\ pc' = "sd_write"
              /\ UNCHANGED setupResult
         ELSE /\ setupResult' = Some(Err("create_file"))
              /\ pc' = "sd_unwind"
              /\ UNCHANGED ws
    /\ UNCHANGED << argv, fs, req, docker_dir, docker_dir_path, buildResult,
                    closeResult, builderCalls, wsCreated, teardowns, stdout,
                    stderr, exitCode >>

\* writeln!(dockerfile, "{}", DOCKERFILE)?; Ok(docker_dir): a failed write leaves
\* the lines written so far
SetupWrite ==
    /\ pc = "sd_write"
    /\ \E ok \in BOOLEAN, k \in 0..(Len(DOCKERFILE) - 1) :
         IF ok
         THEN /\ ws' = [ws EXCEPT !.entries = WithEntry(@, DOCKERFILE_NAME, DOCKERFILE)]
              /\ setupResult' = Some(Ok)
              /\ pc' = "run_dir_path"
         ELSE /\ ws' = [ws EXCEPT !.entries = WithEntry(@, DOCKERFILE_NAME, Prefix(DOCKERFILE, k))]
              /\ setupResult' = Some(Err("write"))
              /\ pc' = "sd_unwind"
    /\ UNCHANGED << argv, fs, req, docker_dir, docker_dir_path, buildResult,
                    closeResult, builderCalls, wsCreated, teardowns, stdout,
                    stderr, exitCode >>

\* SetupUnwind with the TempDir leaked instead of dropped
SetupUnwind_Leaks ==
    /\ pc = "sd_unwind"
    /\ docker_dir' = None
    /\ pc' = "run_setup_err"
    /\ UNCHANGED << argv, fs, req, ws, docker_dir_path, setupResult, buildResult,
                    closeResult, builderCalls, wsCreated, teardowns, stdout,
                    stderr, exitCode >>

\* the ? operator returns the error from setup_docker_dir: docker_dir goes out of
\* scope and its Drop removes the directory, ignoring the result
SetupUnwind ==
    /\ pc = "sd_unwind"
    /\ \E ok \in BOOLEAN, keep \in SUBSET (DOMAIN ws.entries) :
         IF DropRemoves(docker_dir[1])
         THEN /\ ws' = RemoveDirAll(ws, ok, keep)
              /\ teardowns' = teardowns + 1
         ELSE UNCHANGED << ws, teardowns >>
    /\ docker_dir' = None
    /\ pc' = "run_setup_err"
    /\ UNCHANGED << argv, fs, req, docker_dir_path, setupResult, buildResult,
                    closeResult, builderCalls, wsCreated, stdout, stderr, exitCode >>

\* ---------------------------------------------------------------------- run
\* println!("Converting elf file ...")
RunEntry ==
    /\ pc = "run_entry"
    /\ stdout' = Append(stdout, Line("converting", <<req[1].input_path>>, <<>>))
    /\ pc' = "sd_create"
    /\ UNCHANGED << argv, fs, req, ws, docker_dir, docker_dir_path, setupResult,
                    buildResult, closeResult, builderCalls, wsCreated, teardowns,
                    stderr, exitCode >>

\* Err(e) of setup_docker_dir: println!("Could create docker image ...")
RunSetupErr ==
    /\ pc = "run_setup_err"
    /\ stdout' = Append(stdout, Line("setup_err", <<setupResult[1].err>>, <<>>))
    /\ pc' = "run_setup_exit"
    /\ UNCHANGED << argv, fs, req, ws, docker_dir, docker_dir_path, setupResult,
                    buildResult, closeResult, builderCalls, wsCreated, teardowns,
                    stderr, exitCode >>

\* RunSetupExit returning from run instead of exiting with status 1
RunSetupExit_Returns ==
    /\ pc = "run_setup_exit"
    /\ pc' = "run_return"
    /\ UNCHANGED << argv, fs, req, ws, docker_dir, docker_dir_path, setupResult,
                    buildResult, closeResult, builderCalls, wsCreated, teardowns,
                    stdout, stderr, exitCode >>

\* std::process::exit(1) after a failed setup_docker_dir
RunSetupExit ==
    /\ pc = "run_setup_exit"
    /\ pc' = "exited"
    /\ exitCode' = Some(1)
    /\ UNCHANGED << argv, fs, req, ws, docker_dir, docker_dir_path, setupResult,
                    buildResult, closeResult, builderCalls, wsCreated, teardowns,
                    stdout, stderr >>

\* docker_dir.path().to_str(): None when the path is not valid UTF-8
PathToStr(d, utf8) == IF utf8 THEN d.path ELSE None

\* RunDirPath keeping only the path: the TempDir is dropped, and its directory
\* removed, before the builder is called
RunDirPath_DropsTempDir ==
    /\ pc = "run_dir_path"
    /\ docker_dir_path' = PathToStr(docker_dir[1], fs.tmpUtf8)
    /\ stderr' = Append(stderr, Line("debug", <<"Created docker dir">> \o docker_dir_path', <<>>))
    /\ ws' = NoWorkspace
    /\ teardowns' = teardowns + 1
    /\ docker_dir' = None
    /\ pc' = "build_call"
    /\ UNCHANGED << argv, fs, req, setupResult, buildResult, closeResult,
                    builderCalls, wsCreated, stdout, exitCode >>

\* let docker_dir_path = ...; debug!("Created docker dir ...")
RunDirPath ==
    /\ pc = "run_dir_path"
    /\ docker_dir_path' = PathToStr(docker_dir[1], fs.tmpUtf8)
    /\ stderr' = Append(stderr, Line("debug", <<"Created docker dir">> \o docker_dir_path', <<>>))
    /\ pc' = "build_call"
    /\ UNCHANGED << argv, fs, req, ws, docker_dir, setupResult, buildResult,
                    closeResult, builderCalls, wsCreated, teardowns, stdout,
                    exitCode >>

\* the arguments of build_from_docker
BuilderArgs(r, dir) ==
    [resource_path |-> r.resource_path,
     tag |-> BUILD_TAG,
     docker_dir |-> dir,
     output_path |-> r.output_path,
     signing_certificate |-> r.signing_certificate,
     private_key |-> r.private_key]

\* build_from_docker is called
BuildCall ==
    /\ pc = "build_call"
    /\ builderCalls' = Append(builderCalls, BuilderArgs(req[1], docker_dir_path))
    /\ pc' = "building"
    /\ UNCHANGED << argv, fs, req, ws, docker_dir, docker_dir_path, setupResult,
                    buildResult, closeResult, wsCreated, teardowns, stdout,
                    stderr, exitCode >>

\* what build_from_docker can return: Ok((output file, measurements)) or Err(e)
BuildResults ==
    [tag : {"Ok"}, o : Opt(UserPaths) \ {None}, m : Opt(Measurements) \ {None}, e : {None}]
    \cup [tag : {"Err"}, o : {None}, m : {None}, e : Opt(BuildErrors) \ {None}]

\* build_from_docker returns
BuildReturn ==
    /\ pc = "building"
    /\ \E r \in BuildResults :
         /\ buildResult' = Some(r)
         /\ pc' = IF r.tag = "Ok" THEN "ok_close" ELSE "err_close"
    /\ UNCHANGED << argv, fs, req, ws, docker_dir, docker_dir_path, setupResult,
                    closeResult, builderCalls, wsCreated, teardowns, stdout,
                    stderr, exitCode >>

\* docker_dir.close(): remove_dir_all on the directory, the path set to None,
\* and then the Drop of the consumed TempDir; a failure is logged with debug!
CloseDockerDir(ok, keep) ==
    LET once == RemoveDirAll(ws, ok, keep)
        again == DropRemoves(Closed(docker_dir[1]))
    IN  /\ ws' = IF again THEN RemoveDirAll(once, ok, keep \cap DOMAIN once.entries) ELSE once
        /\ teardowns' = teardowns + (IF again THEN 2 ELSE 1)
        /\ closeResult' = Some(IF ok THEN "Ok" ELSE "Err")
        /\ docker_dir' = None
        /\ stderr' = IF ok THEN stderr
                      ELSE Append(stderr, Line("debug", <<"Could not clean up docker directory">> \o docker_dir_path, <<>>))

\* RunOkClose without the call of close
RunOkClose_Skipped ==
    /\ pc = "ok_close"
    /\ pc' = "ok_report"
    /\ UNCHANGED << argv, fs, req, ws, docker_dir, docker_dir_path, setupResult,
                    buildResult, closeResult, builderCalls, wsCreated, teardowns,
                    stdout, stderr, exitCode >>

\* RunOkClose with a failed close treated as fatal: exit(1) without the report
RunOkClose_Fatal ==
    /\ pc = "ok_close"
    /\ \E ok \in BOOLEAN, keep \in SUBSET (DOMAIN ws.entries) :
         /\ CloseDockerDir(ok, keep)
         /\ pc' = IF ok THEN "ok_report" ELSE "err_exit"
    /\ UNCHANGED << argv, fs, req, docker_dir_path, setupResult, buildResult,
                    builderCalls, wsCreated, stdout, exitCode >>

\* the Ok arm: docker_dir.close()
RunOkClose ==
    /\ pc = "ok_close"
    /\ \E ok \in BOOLEAN, keep \in SUBSET (DOMAIN ws.entries) : CloseDockerDir(ok, keep)
    /\ pc' = "ok_report"
    /\ UNCHANGED << argv, fs, req, docker_dir_path, setupResult, buildResult,
                    builderCalls, wsCreated, stdout, exitCode >>

\* RunOkReport printing the input path as the created image
RunOkReport_PrintsInput ==
    /\ pc = "ok_report"
    /\ stdout' = stdout \o << Line("created", <<req[1].input_path>>, <<>>),
                              Line("measurements", <<>>, buildResult[1].m) >>
    /\ pc' = "run_return"
    /\ UNCHANGED << argv, fs, req, ws, docker_dir, docker_dir_path, setupResult,
                    buildResult, closeResult, builderCalls, wsCreated, teardowns,
                    stderr, exitCode >>

\* println!("Enclave Image successfully created: ..."); println!("{:#?}", measurements)
RunOkReport ==
    /\ pc = "ok_report"
    /\ stdout' = stdout \o << Line("created", <<req[1].output_path>>, <<>>),
                              Line("measurements", <<>>, buildResult[1].m) >>
    /\ pc' = "run_return"
    /\ UNCHANGED << argv, fs, req, ws, docker_dir, docker_dir_path, setupResult,
                    buildResult, closeResult, builderCalls, wsCreated, teardowns,
                    stderr, exitCode >>

\* RunErrClose without the call of close
RunErrClose_Skipped ==
    /\ pc = "err_close"
    /\ pc' = "err_print"
    /\ UNCHANGED << argv, fs, req, ws, docker_dir, docker_dir_path, setupResult,
                    buildResult, closeResult, builderCalls, wsCreated, teardowns,
                    stdout, stderr, exitCode >>

\* the Err arm: docker_dir.close()
RunErrClose ==
    /\ pc = "err_close"
    /\ \E ok \in BOOLEAN, keep \in SUBSET (DOMAIN ws.entries) : CloseDockerDir(ok, keep)
    /\ pc' = "err_print"
    /\ UNCHANGED << argv, fs, req, docker_dir_path, setupResult, buildResult,
                    builderCalls, wsCreated, stdout, exitCode >>

\* RunErrPrint without the println!
RunErrPrint_Silent ==
    /\ pc = "err_print"
    /\ pc' = "err_exit"
    /\ UNCHANGED << argv, fs, req, ws, docker_dir, docker_dir_path, setupResult,
                    buildResult, closeResult, builderCalls, wsCreated, teardowns,
                    stdout, stderr, exitCode >>

\* println!("Building eif failed with {:?}", e)
RunErrPrint ==
    /\ pc = "err_print"
    /\ stdout' = Append(stdout, Line("build_err", <<>>, buildResult[1].e))
    /\ pc' = "err_exit"
    /\ UNCHANGED << argv, fs, req, ws, docker_dir, docker_dir_path, setupResult,
                    buildResult, closeResult, builderCalls, wsCreated, teardowns,
                    stderr, exitCode >>

\* std::process::exit(1) after a failed build
RunErrExit ==
    /\ pc = "err_exit"
    /\ pc' = "exited"
    /\ exitCode' = Some(1)
    /\ UNCHANGED << argv, fs, req, ws, docker_dir, docker_dir_path, setupResult,
                    buildResult, closeResult, builderCalls, wsCreated, teardowns,
                    stdout, stderr >>

\* ------------------------------------------------------------ specification
Next ==
    \/ ClapReject
    \/ MainLocals
    \/ RunEntry
    \/ SetupCreate
    \/ SetupCopy
    \/ SetupCreateFile
    \/ SetupWrite
    \/ SetupUnwind
    \/ RunSetupErr
    \/ RunSetupExit
    \/ RunDirPath
    \/ BuildCall
    \/ BuildReturn
    \/ RunOkClose
    \/ RunOkReport
    \/ RunErrClose
    \/ RunErrPrint
    \/ RunErrExit
    \/ MainReturn

Spec == Init /\ [][Next]_vars

\* the process is sequential: a statement that can run does run, and the call of
\* the builder returns
FairSpec == Spec /\ WF_vars(Next)

\* the shape of the state
TypeOK ==
    /\ argv \in ArgvSet
    /\ pc \in {"main_parse", "run_entry", "sd_create", "sd_copy", "sd_create_file",
                "sd_write", "sd_unwind", "run_setup_err", "run_setup_exit",
                "run_dir_path", "build_call", "building", "ok_close", "ok_report",
                "err_close", "err_print", "err_exit", "run_return", "exited"}
    /\ ws.exists \in BOOLEAN
    /\ DOMAIN ws.entries \subseteq {ENCLAVE_NAME, DOCKERFILE_NAME}
    /\ docker_dir \in Opt({NewTempDir})
    /\ docker_dir_path \in Opt({WsPath})
    /\ buildResult \in Opt(BuildResults)
    /\ closeResult \in Opt({"Ok", "Err"})
    /\ wsCreated \in 0..1
    /\ teardowns \in 0..1
    /\ exitCode \in Opt({0, 1})

\* ------------------------------------------------------------------- claims
\* run is over: it has returned to main, or the process has ended
Finished == pc \in {"run_return", "exited"}

\* every validator accepted the command line
Validated == InvalidArgs(argv, fs) = {}

\* the invocation was rejected by a validator before run was entered
Rejected ==
    /\ pc = "exited"
    /\ exitCode = Some(1)
    /\ req = None
    /\ Len(stderr) = 1
    /\ stderr[1].kind = "clap_err"
    /\ stdout = <<>>

\* no directory was created and the builder was not called
NothingDone ==
    /\ wsCreated = 0
    /\ ~ws.exists
    /\ teardowns = 0
    /\ builderCalls = <<>>

BuildOk == buildResult # None /\ buildResult[1].tag = "Ok"
BuildErr == buildResult # None /\ buildResult[1].tag = "Err"

\* C1: whenever the docker directory has been created, its removal is attempted
\* exactly once by the time the invocation ends (after a failed populate, after
\* a successful build and after a failed build), and never more than once
C1_TeardownExactlyOnce ==
    /\ teardowns <= wsCreated
    /\ Finished => teardowns = wsCreated

\* the directory was created, populate failed, and the process has ended
C1_Witness ==
    /\ pc = "exited"
    /\ wsCreated = 1
    /\ teardowns = 1
    /\ setupResult = Some(Err("write"))

\* C2, as stated: once run has finished after a builder call, the docker
\* directory does not exist
C2_NoLeakEver == (Finished /\ buildResult # None) => ~ws.exists

\* C2, amended: once run has finished after a builder call, close has been
\* called, and the docker directory does not exist if close succeeded
C2_NoLeakUnlessCloseFailed ==
    (Finished /\ buildResult # None) =>
        /\ closeResult # None
        /\ closeResult = Some("Ok") => ~ws.exists

\* the builder failed, close succeeded and the directory is gone
C2_Witness ==
    /\ pc = "exited"
    /\ BuildErr
    /\ wsCreated = 1
    /\ closeResult = Some("Ok")
    /\ ~ws.exists

\* C3: when the input path is missing, unreadable or not a regular file, run is
\* never entered, no directory is ever created, the builder is never called,
\* and the invocation ends rejected by a validator
C3_BadInputRejected ==
    fs.elfKind \in {"missing", "unreadable", "dir"} =>
        /\ pc \in {"main_parse", "exited"}
        /\ NothingDone
        /\ pc = "exited" => Rejected

\* an unreadable input file was rejected
C3_Witness ==
    /\ fs.elfKind = "unreadable"
    /\ Rejected

\* C4: when the resource path given with -r is missing or not a directory, the
\* invocation ends rejected by a validator with no directory created and the
\* builder not called
C4_BadResourceRejected ==
    (argv.resource # None /\ fs.resKind \in {"missing", "file"}) =>
        /\ pc \in {"main_parse", "exited"}
        /\ NothingDone
        /\ pc = "exited" => Rejected

\* a resource path naming a regular file was rejected, the input being valid
C4_Witness ==
    /\ argv.resource # None
    /\ fs.resKind = "file"
    /\ fs.elfKind = "file"
    /\ Rejected

\* C5, as stated: when -r is not given, a directory is created and the builder
\* called only if the default resource path is a directory; otherwise the
\* invocation is rejected and nothing is done
C5_DefaultResourceValidated ==
    (argv.resource = None /\ fs.resKind \in {"missing", "file"}) =>
        /\ NothingDone
        /\ pc = "exited" => Rejected

\* the lines run printed after the "Converting" line
Report == SubSeq(stdout, 2, Len(stdout))

C7_BuildErrorSurfacedAfterTeardown ==
    BuildErr =>
        /\ \A i \in 1..Len(stdout) : stdout[i].kind \notin {"created", "measurements", "setup_err"}
        /\ (pc \in {"err_exit", "exited"}) =>
               /\ Report = << Line("build_err", <<>>, buildResult[1].e) >>
               /\ teardowns = 1
               /\ closeResult # None
        /\ (pc \notin {"err_exit", "exited"}) => Report = <<>>
        /\ pc = "exited" => exitCode = Some(1)
        /\ pc # "run_return"

\* the builder failed with error 2 and the process has ended
C7_Witness ==
    /\ pc = "exited"
    /\ BuildErr
    /\ buildResult[1].e = <<2>>
    /\ teardowns = 1

\* the lines run prints, by the results of setup_docker_dir and of the builder
ExpectedReport ==
    IF setupResult # None /\ setupResult[1].tag = "Err"
        THEN << Line("setup_err", <<setupResult[1].err>>, <<>>) >>
    ELSE IF BuildErr
        THEN << Line("build_err", <<>>, buildResult[1].e) >>
    ELSE IF BuildOk
        THEN << Line("created", <<argv.eiffile>>, <<>>),
                Line("measurements", <<>>, buildResult[1].m) >>
    ELSE <<>>

\* the exit status, by the results of validation, setup_docker_dir and the builder
ExpectedExit ==
    IF Validated /\ setupResult = Some(Ok) /\ BuildOk THEN 0 ELSE 1

\* C8: when the process has ended, what it printed and its exit status are
\* given by the results of validation, setup_docker_dir and the builder alone,
\* whatever the removal of the docker directory returned
C8_OutcomeIgnoresTeardown ==
    pc = "exited" =>
        /\ exitCode = Some(ExpectedExit)
        /\ Validated => Report = ExpectedReport
        /\ ~Validated => stdout = <<>>

\* the build succeeded, close failed and left the directory, and the status is 0
C8_Witness ==
    /\ pc = "exited"
    /\ BuildOk
    /\ closeResult = Some("Err")
    /\ ws.exists
    /\ exitCode = Some(0)

\* C9: the exit status is 0 exactly when validation, the creation and the
\* population of the docker directory and the builder call all succeeded, and
\* it is 1 otherwise
C9_ExitStatus ==
    pc = "exited" =>
        /\ exitCode \in {Some(0), Some(1)}
        /\ exitCode = Some(0) <=> (Validated /\ setupResult = Some(Ok) /\ BuildOk)
        /\ exitCode = Some(1) <=> (~Validated \/ setupResult \in {Some(Err(e)) : e \in {"create", "copy", "create_file", "write"}} \/ BuildErr)

\* the process ended with status 0
C9_Witness ==
    /\ pc = "exited"
    /\ exitCode = Some(0)
    /\ BuildOk

\* the instructions of a Dockerfile: its lines that are not blank
RECURSIVE Instructions(_)
Instructions(lines) ==
    IF lines = <<>> THEN <<>>
    ELSE IF Head(lines).words = <<>> THEN Instructions(Tail(lines))
    ELSE <<Head(lines).words>> \o Instructions(Tail(lines))

\* C10: once setup_docker_dir has succeeded and until the directory is removed,
\* the directory holds exactly the files enclave and Dockerfile, enclave is a
\* copy of the input file, and the Dockerfile is the fixed text: FROM scratch,
\* COPY enclave ., CMD ["./enclave"]
C10_WorkspaceShape ==
    (setupResult = Some(Ok) /\ pc \in {"run_dir_path", "build_call", "building", "ok_close", "err_close"}) =>
        /\ ws.exists
        /\ DOMAIN ws.entries = {"enclave", "Dockerfile"}
        /\ ws.entries["enclave"] = <<fs.elfData>>
        /\ Len(ws.entries["Dockerfile"]) = 5
        /\ Instructions(ws.entries["Dockerfile"]) =
               << <<"FROM", "scratch">>, <<"COPY", "enclave", ".">>, <<"CMD", "[\"./enclave\"]">> >>

\* the builder is running on the directory made from an input file holding 1
C10_Witness ==
    /\ pc = "building"
    /\ fs.elfData = 1
    /\ DOMAIN ws.entries = {"enclave", "Dockerfile"}

\* C11, as stated: every call of the builder gets the resource directory of the
\* request, the tag elf2eif, the path of the docker directory made in this
\* invocation (present), the output path, and the certificate and the key as
\* given on the command line
C11_BuilderArguments ==
    \A i \in 1..Len(builderCalls) :
        /\ wsCreated = 1
        /\ builderCalls[i] =
              [resource_path |-> IF argv.resource = None THEN DEFAULT_RESOURCE_PATH
                                 ELSE argv.resource[1],
               tag |-> "elf2eif",
               docker_dir |-> Some(WsPath),
               output_path |-> argv.eiffile,
               signing_certificate |-> argv.cert,
               private_key |-> argv.key]

\* C12, as stated: the process never ends from inside run; it ends only in
\* main, by clap's rejection or after run has returned
C12_RunNeverExits ==
    [][(pc # "exited" /\ pc' = "exited") => pc \in {"main_parse", "run_return"}]_vars

\* C12, amended: run returns to main only after a successful build; after a
\* failed setup_docker_dir and after a failed build run itself ends the process
\* with status 1, and otherwise the process ends in main
C12_RunExitsOnFailure ==
    [][(pc # "exited" /\ pc' = "exited") =>
          \/ pc = "main_parse" /\ ~Validated /\ exitCode' = Some(1)
          \/ pc = "run_setup_exit" /\ setupResult # None /\ setupResult[1].tag = "Err"
                /\ exitCode' = Some(1)
          \/ pc = "err_exit" /\ BuildErr /\ exitCode' = Some(1)
          \/ pc = "run_return" /\ setupResult = Some(Ok) /\ BuildOk /\ exitCode' = Some(0)]_vars

\* run ended the process after a failed copy
C12_Witness ==
    /\ pc = "exited"
    /\ setupResult = Some(Err("copy"))
    /\ exitCode = Some(1)
    /\ req # None

\* a readable regular input file, a resource path that is a directory, and no
\* certificate and no key
PlainValidRequest ==
    /\ fs.elfKind = "file"
    /\ fs.resKind = "dir"
    /\ argv.cert = None
    /\ argv.key = None

\* C13: for a readable regular input file, a valid resource directory and no
\* credentials, once setup_docker_dir and the builder have succeeded run goes on
\* to print the output path and the measurements and returns to main, and the
\* process then ends with status 0
C13_SuccessReturns ==
    /\ (PlainValidRequest /\ BuildOk /\ pc = "ok_close") ~>
          (pc = "run_return"
           /\ Report = << Line("created", <<argv.eiffile>>, <<>>),
                          Line("measurements", <<>>, buildResult[1].m) >>)
    /\ (PlainValidRequest /\ pc = "run_return") ~>
          (pc = "exited" /\ exitCode = Some(0))

\* such a request ended with status 0 for an input file holding 0
C13_Witness ==
    /\ PlainValidRequest
    /\ fs.elfData = 0
    /\ pc = "exited"
    /\ exitCode = Some(0)
    /\ Len(stdout) = 3

\* the number of lines of the kinds in `kinds` printed on either stream
Printed(kinds) ==
    Cardinality({i \in 1..Len(stdout) : stdout[i].kind \in kinds})
    + Cardinality({i \in 1..Len(stderr) : stderr[i].kind \in kinds})

ErrorKinds == {"clap_err", "setup_err", "build_err"}

\* C14: a process that ended with status 1 printed exactly one error message and
\* neither line of the success report; one that ended with status 0 printed the
\* output path and the measurements, once each, and no error message; and at
\* no time are an error message and a line of the success report both printed
C14_OneDiagnostic ==
    /\ Printed(ErrorKinds) <= 1
    /\ Printed(ErrorKinds) = 0 \/ Printed({"created", "measurements"}) = 0
    /\ (pc = "exited" /\ exitCode = Some(1)) =>
          /\ Printed(ErrorKinds) = 1
          /\ Printed({"created", "measurements"}) = 0
    /\ (pc = "exited" /\ exitCode = Some(0)) =>
          /\ Printed(ErrorKinds) = 0
          /\ Printed({"created"}) = 1
          /\ Printed({"measurements"}) = 1

\* the process ended with status 1 after TempDir::new failed
C14_Witness ==
    /\ pc = "exited"
    /\ exitCode = Some(1)
    /\ setupResult = Some(Err("create"))
    /\ Printed(ErrorKinds) = 1

\* C15: while the builder runs the docker directory exists with the copy and the
\* manifest and no removal has been attempted; a removal after the builder was
\* called happens only once the builder has returned, in the Ok arm and in the
\* Err arm alike
C15_TeardownFollowsBuilder ==
    /\ pc \in {"build_call", "building", "ok_close", "err_close"} =>
          /\ ws.exists
          /\ DOMAIN ws.entries = {"enclave", "Dockerfile"}
          /\ docker_dir = Some(NewTempDir)
          /\ teardowns = 0
          /\ closeResult = None
    /\ (builderCalls # <<>> /\ teardowns > 0) => buildResult # None
    /\ pc \in {"ok_report", "err_print"} => (teardowns = 1 /\ closeResult # None)

\* the builder failed and the directory has been removed after it returned
C15_Witness ==
    /\ pc = "err_print"
    /\ BuildErr
    /\ teardowns = 1
    /\ ~ws.exists

\* setup_docker_dir failed after TempDir::new had succeeded
PopulateFailed ==
    setupResult \in {Some(Err("copy")), Some(Err("create_file")), Some(Err("write"))}

\* setup_docker_dir has returned to run with an error
SetupErrReturned == pc \in {"run_setup_err", "run_setup_exit", "exited"}

\* C16, as stated: when TempDir::new fails no removal is attempted; when the
\* copy, the creation or the writing of the manifest fails, the directory is
\* gone before the error is printed, and the process ends with status 1
C16_PartialWorkspaceGone ==
    /\ setupResult = Some(Err("create")) => (teardowns = 0 /\ wsCreated = 0 /\ ~ws.exists)
    /\ (PopulateFailed /\ SetupErrReturned) => (teardowns = 1 /\ ~ws.exists)
    /\ (setupResult # None /\ setupResult[1].tag = "Err" /\ pc = "exited") =>
          (exitCode = Some(1) /\ Report = << Line("setup_err", <<setupResult[1].err>>, <<>>) >>)

\* C16, amended: when TempDir::new fails no removal is attempted; when the copy,
\* the creation or the writing of the manifest fails, the removal of the
\* directory has been attempted once, and the TempDir is gone, before the error
\* is printed, and the process ends with status 1
C16_PartialWorkspaceTornDown ==
    /\ setupResult = Some(Err("create")) => (teardowns = 0 /\ wsCreated = 0 /\ ~ws.exists)
    /\ (PopulateFailed /\ SetupErrReturned) => (teardowns = 1 /\ docker_dir = None)
    /\ (PopulateFailed /\ pc = "sd_unwind") => Report = <<>>
    /\ (setupResult # None /\ setupResult[1].tag = "Err" /\ pc = "exited") =>
          (exitCode = Some(1) /\ Report = << Line("setup_err", <<setupResult[1].err>>, <<>>) >>)

\* File::create failed, and the directory holding the copy has been removed
\* before the error is printed
C16_Witness ==
    /\ pc = "run_setup_err"
    /\ setupResult = Some(Err("create_file"))
    /\ teardowns = 1
    /\ ~ws.exists
    /\ Report = <<>>

\* nothing is left to tear down: every directory created has had its removal
\* attempted and no TempDir is in scope
CleanedUp == teardowns = wsCreated /\ docker_dir = None

\* the process has ended: rejected by a validator, or after run with a status
Terminal ==
    /\ pc = "exited"
    /\ \/ Rejected
       \/ req # None /\ CleanedUp /\ exitCode \in {Some(0), Some(1)}

\* C17: given that the call of the builder returns, every invocation ends in a
\* terminal state and takes no step from it; once the builder is running, close
\* is eventually called and the process ends cleaned up; and the docker
\* directory is created only after every validator has accepted
C17_Terminates ==
    /\ <>Terminal
    /\ [][pc # "exited"]_vars
    /\ (pc = "building") ~> (Terminal /\ closeResult # None /\ teardowns = 1)
    /\ [](wsCreated > 0 => (Validated /\ req # None))

\* the process ended cleaned up after a successful build
C17_Witness ==
    /\ Terminal
    /\ BuildOk
    /\ closeResult = Some("Ok")
    /\ wsCreated = 1
    /\ ~ws.exists

\* C18: the builder is called at most once, and only after setup_docker_dir has
\* returned Ok; inside setup_docker_dir the copy is complete before the manifest
\* is created, and the manifest is written before the builder is called; after
\* a failed setup_docker_dir the builder is never called
C18_BuilderOnceAfterPopulate ==
    /\ Len(builderCalls) <= 1
    /\ builderCalls # <<>> => setupResult = Some(Ok)
    /\ (setupResult # None /\ setupResult[1].tag = "Err") => builderCalls = <<>>
    /\ pc = "sd_copy" => DOMAIN ws.entries = {}
    /\ pc = "sd_create_file" =>
          (DOMAIN ws.entries = {"enclave"} /\ ws.entries["enclave"] = <<fs.elfData>>)
    /\ pc = "build_call" =>
          (builderCalls = <<>> /\ setupResult = Some(Ok)
           /\ DOMAIN ws.entries = {"enclave", "Dockerfile"}
           /\ ws.entries["Dockerfile"] = DOCKERFILE)

\* the builder has been called once, with a certificate, after a successful setup
C18_Witness ==
    /\ pc = "building"
    /\ Len(builderCalls) = 1
    /\ setupResult = Some(Ok)
    /\ argv.cert # None

\* C19: no step of main, run or setup_docker_dir changes what is at the input
\* path or the content of the input file: the copy only reads it and the
\* removals touch only the docker directory (the step in which the builder
\* returns is the builder's own, not the pipeline's)
C19_InputUntouched ==
    [][pc # "building" =>
          /\ fs'.elfKind = fs.elfKind
          /\ fs'.elfData = fs.elfData
          /\ (ws' # ws => fs' = fs)]_vars

\* the input file holding 1 is still there after the copy, a failed build and
\* the removal of the docker directory
C19_Witness ==
    /\ pc = "exited"
    /\ BuildErr
    /\ teardowns = 1
    /\ fs.elfKind = "file"
    /\ fs.elfData = 1

====
